---- MODULE Spec2Model ----
(***************************************************************************)
(* just-breathe: the BreatheState phase machine (src/main.rs 8-99) and the *)
(* event-loop closure that drives it (src/main.rs 182-231).                *)
(*                                                                         *)
(* Time is counted in ticks of 1/120 s, so that UPDATE_PERIOD (1/60 s) is  *)
(* 2 ticks and the 4.0 s phase length is 480 ticks.  An Instant is the     *)
(* number of ticks since the process started; an f64 number of seconds is  *)
(* a number of ticks (advance) or an exact rational (scale, colour).       *)
(* Floating-point rounding is not modelled.                                *)
(***************************************************************************)
EXTENDS Integers, Sequences, FiniteSets, TLC

VARIABLES
    breathe_state,      \* the BreatheState value: [variant, t]
    last_time,          \* Instant of the last model update
    last_render_time,   \* Instant of the last redraw
    control_flow,       \* the event loop's ControlFlow
    now,                \* the reading Instant::now() returns
    pc,                 \* where the event loop is in its iteration
    inbox,              \* window events the OS has queued for the loop
    redraw_requested,   \* a request_redraw() is outstanding
    sum_dt,             \* history: sum of every dt passed to advance
    prev_state,         \* history: breathe_state before the last advance
    last_dt,            \* history: dt of the last advance call
    draws,              \* history: number of draw calls, counted up to 2
    prev_render_time,   \* history: last_render_time before the last draw
    close_handled,      \* history: a CloseRequested handler has run
    resize_redraw,      \* history: "none", "pending" (Resized handled,
                        \*   not drawn yet), "drawn"
    skewed,             \* history: the last tick read a clock behind last_time
    backs               \* history: number of backward steps of the clock

vars == <<breathe_state, last_time, last_render_time, control_flow, now, pc,
          inbox, redraw_requested, sum_dt, prev_state, last_dt, draws,
          prev_render_time, close_handled, resize_redraw, skewed, backs>>

schedVars == <<last_time, last_render_time, control_flow, now, pc, inbox,
               redraw_requested, draws, prev_render_time, close_handled,
               resize_redraw, skewed, backs>>

----------------------------------------------------------------------------
(* Program constants, in ticks of 1/120 s *)

UPDATE_PERIOD == 2

PERIOD == 480

CYCLE == 4 * PERIOD

(* Bounds *)

MaxElapsed == 1440

MaxTotal == 3840

MaxJumps == 2

MaxFine == 2

MaxInbox == 1

MaxBack == 1

----------------------------------------------------------------------------
(* Exact arithmetic standing for f64: a number is [n, d], d > 0, reduced *)

Abs(a) == IF a < 0 THEN -a ELSE a

RECURSIVE GCD(_, _)
GCD(a, b) == IF b = 0 THEN a ELSE GCD(b, a % b)

Rat(n, d) ==
    LET g == GCD(Abs(n), Abs(d))
        s == IF d < 0 THEN -1 ELSE 1
    IN  [n |-> s * (n \div g), d |-> s * (d \div g)]

RAdd(p, q) ==
    LET g == GCD(p.d, q.d)
        l == (p.d \div g) * q.d
    IN  Rat(p.n * (l \div p.d) + q.n * (l \div q.d), l)

RNeg(p) == [n |-> -p.n, d |-> p.d]

RSub(p, q) == RAdd(p, RNeg(q))

RMul(p, q) ==
    LET g1 == GCD(Abs(p.n), q.d)
        g2 == GCD(Abs(q.n), p.d)
    IN  Rat((p.n \div g1) * (q.n \div g2), (p.d \div g2) * (q.d \div g1))

RLt(p, q) == RSub(p, q).n < 0

RLe(p, q) == RSub(p, q).n <= 0

mul_add(x, a, b) == RAdd(RMul(x, a), b)

----------------------------------------------------------------------------
(* BreatheState *)

Variants == <<"In", "HoldIn", "Out", "HoldOut">>

In(t) == [variant |-> "In", t |-> t]

HoldIn(t) == [variant |-> "HoldIn", t |-> t]

Out(t) == [variant |-> "Out", t |-> t]

HoldOut(t) == [variant |-> "HoldOut", t |-> t]

lerp_swapped(t, a, b) == RAdd(RMul(RSub(Rat(1, 1), t), b), RMul(t, a))

lerp(t, a, b) == RAdd(RMul(RSub(Rat(1, 1), t), a), RMul(t, b))

ease_square(x) ==
    IF RLt(x, Rat(1, 2))
    THEN RMul(RMul(RMul(Rat(4, 1), x), x), x)
    ELSE LET y == mul_add(x, Rat(2, 1), Rat(-2, 1))
         IN  mul_add(RMul(y, y), Rat(1, 2), Rat(1, 1))

ease_in_out_cubic(x) ==
    IF RLt(x, Rat(1, 2))
    THEN RMul(RMul(RMul(Rat(4, 1), x), x), x)
    ELSE LET y == mul_add(x, Rat(2, 1), Rat(-2, 1))
         IN  mul_add(RMul(RMul(y, y), y), Rat(1, 2), Rat(1, 1))

scale_copied(self) ==
    CASE self.variant = "In" ->
            lerp(ease_in_out_cubic(Rat(self.t, PERIOD)), Rat(1, 4), Rat(1, 1))
      [] self.variant = "HoldIn" -> Rat(1, 1)
      [] self.variant = "Out" ->
            lerp(ease_in_out_cubic(Rat(self.t, PERIOD)), Rat(1, 4), Rat(1, 1))
      [] self.variant = "HoldOut" -> Rat(1, 4)

scale(self) ==
    CASE self.variant = "In" ->
            lerp(ease_in_out_cubic(Rat(self.t, PERIOD)), Rat(1, 4), Rat(1, 1))
      [] self.variant = "HoldIn" -> Rat(1, 1)
      [] self.variant = "Out" ->
            lerp(ease_in_out_cubic(Rat(self.t, PERIOD)), Rat(1, 1), Rat(1, 4))
      [] self.variant = "HoldOut" -> Rat(1, 4)

blue == Rat(260, 1)

red == Rat(330, 1)

hue(self) ==
    CASE self.variant = "In" -> blue
      [] self.variant = "HoldIn" ->
            lerp(ease_in_out_cubic(Rat(self.t, PERIOD)), blue, red)
      [] self.variant = "Out" -> red
      [] self.variant = "HoldOut" ->
            lerp(ease_in_out_cubic(Rat(self.t, PERIOD)), red, blue)

(* The Hsl value of line 49; its conversion to linear RGB is not modelled *)
colour(self) ==
    [hue |-> hue(self), saturation |-> Rat(1, 2), lightness |-> Rat(1, 2)]

advance_drop(self, dt) ==
    LET t == self.t + dt
    IN  CASE self.variant = "In" ->
                IF t >= PERIOD THEN HoldIn(0) ELSE In(t)
          [] self.variant = "HoldIn" ->
                IF t >= PERIOD THEN Out(0) ELSE HoldIn(t)
          [] self.variant = "Out" ->
                IF t >= PERIOD THEN HoldOut(0) ELSE Out(t)
          [] self.variant = "HoldOut" ->
                IF t >= PERIOD THEN In(0) ELSE HoldOut(t)

advance_gt(self, dt) ==
    LET t == self.t + dt
    IN  CASE self.variant = "In" ->
                IF t > PERIOD THEN HoldIn(t - PERIOD) ELSE In(t)
          [] self.variant = "HoldIn" ->
                IF t > PERIOD THEN Out(t - PERIOD) ELSE HoldIn(t)
          [] self.variant = "Out" ->
                IF t > PERIOD THEN HoldOut(t - PERIOD) ELSE Out(t)
          [] self.variant = "HoldOut" ->
                IF t > PERIOD THEN In(t - PERIOD) ELSE HoldOut(t)

advance_stuck(self, dt) ==
    LET t == self.t + dt
    IN  CASE self.variant = "In" ->
                IF t >= PERIOD THEN HoldIn(t - PERIOD) ELSE In(t)
          [] self.variant = "HoldIn" ->
                IF t >= PERIOD THEN Out(t - PERIOD) ELSE HoldIn(t)
          [] self.variant = "Out" ->
                IF t >= PERIOD THEN HoldOut(t - PERIOD) ELSE Out(t)
          [] self.variant = "HoldOut" ->
                IF t >= PERIOD THEN HoldOut(t - PERIOD) ELSE HoldOut(t)

advance_skipzero(self, dt) ==
    LET t == self.t + dt
    IN  CASE dt = 0 -> self
          [] dt # 0 /\ self.variant = "In" ->
                IF t >= PERIOD THEN HoldIn(t - PERIOD) ELSE In(t)
          [] dt # 0 /\ self.variant = "HoldIn" ->
                IF t >= PERIOD THEN Out(t - PERIOD) ELSE HoldIn(t)
          [] dt # 0 /\ self.variant = "Out" ->
                IF t >= PERIOD THEN HoldOut(t - PERIOD) ELSE Out(t)
          [] dt # 0 /\ self.variant = "HoldOut" ->
                IF t >= PERIOD THEN In(t - PERIOD) ELSE HoldOut(t)

advance(self, dt) ==
    LET t == self.t + dt
    IN  CASE self.variant = "In" ->
                IF t >= PERIOD THEN HoldIn(t - PERIOD) ELSE In(t)
          [] self.variant = "HoldIn" ->
                IF t >= PERIOD THEN Out(t - PERIOD) ELSE HoldIn(t)
          [] self.variant = "Out" ->
                IF t >= PERIOD THEN HoldOut(t - PERIOD) ELSE Out(t)
          [] self.variant = "HoldOut" ->
                IF t >= PERIOD THEN In(t - PERIOD) ELSE HoldOut(t)

----------------------------------------------------------------------------
(* The control flow of the event loop *)

Poll == [kind |-> "Poll", until |-> 0]

WaitUntil(i) == [kind |-> "WaitUntil", until |-> i]

Exit == [kind |-> "Exit", until |-> 0]

(* Instants the clock can show: up to MaxFine ticks after the start and    *)
(* after each jump of one phase length (the process was suspended).        *)
ClockValues == {k * PERIOD + f : k \in 0..MaxJumps, f \in 0..MaxFine}

EventKinds == {"Resized", "CloseRequested", "Other"}

Init ==
    /\ breathe_state = In(0)
    /\ last_time = 0
    /\ last_render_time \in {0, 1}
    /\ now = last_render_time
    /\ control_flow = Poll
    /\ pc = "Wait"
    /\ inbox = <<>>
    /\ redraw_requested = FALSE
    /\ sum_dt = 0
    /\ prev_state = In(0)
    /\ last_dt = 0
    /\ draws = 0
    /\ prev_render_time = last_render_time
    /\ close_handled = FALSE
    /\ resize_redraw = "none"
    /\ skewed = FALSE
    /\ backs = 0

----------------------------------------------------------------------------
(* The phase machine alone: advance called with any dt of DtSet *)

DtSet ==
    {0, PERIOD \div 8, PERIOD \div 4, PERIOD \div 2, PERIOD, 2 * PERIOD,
     4 * PERIOD}

AdvanceCall(dt) ==
    /\ sum_dt + dt <= MaxTotal
    /\ advance(breathe_state, dt).t <= MaxElapsed
    /\ breathe_state' = advance(breathe_state, dt)
    /\ prev_state' = breathe_state
    /\ last_dt' = dt
    /\ sum_dt' = sum_dt + dt
    /\ UNCHANGED schedVars

InitAdv == Init /\ last_render_time = 0

NextAdv == \E dt \in DtSet : AdvanceCall(dt)

SpecAdv == InitAdv /\ [][NextAdv]_vars

(* The phase machine run without end: ticks keep occurring and the clock   *)
(* keeps progressing, so a call with dt > 0 always comes again.  sum_dt is *)
(* kept modulo one cycle.                                                  *)

AdvanceLive(dt) ==
    /\ advance(breathe_state, dt).t <= MaxElapsed
    /\ breathe_state' = advance(breathe_state, dt)
    /\ prev_state' = breathe_state
    /\ last_dt' = dt
    /\ sum_dt' = (sum_dt + dt) % CYCLE
    /\ UNCHANGED schedVars

NextLive == \E dt \in DtSet : AdvanceLive(dt)

Progress == \E dt \in DtSet \ {0} : AdvanceLive(dt)

SpecLive == InitAdv /\ [][NextLive]_vars /\ WF_vars(Progress)

----------------------------------------------------------------------------
(* The event loop: event_loop.run calls the closure once per event, in the *)
(* order NewEvents, window events, MainEventsCleared, RedrawRequested (if  *)
(* a redraw was requested), RedrawEventsCleared, and then waits as         *)
(* control_flow says, or delivers LoopDestroyed and stops if it is Exit.   *)

(* line 188, evaluated at the start of every call of the closure *)
Armed == WaitUntil(last_render_time + UPDATE_PERIOD)

(* What the loop keeps of the closure's control flow: once Exit, the       *)
(* closure is handed a scratch value and the loop's own stays Exit.        *)
Sticky(cf) == IF control_flow.kind = "Exit" THEN control_flow ELSE cf

delta_signed(later, earlier) == later - earlier

(* `now - last_time` on Instants yields a Duration, which is never negative *)
delta(later, earlier) == IF later >= earlier THEN later - earlier ELSE 0

WakeUp ==
    \/ inbox # <<>>
    \/ control_flow.kind = "Poll"
    \/ control_flow.kind = "WaitUntil" /\ now >= control_flow.until

NewEvents ==
    /\ pc = "Wait"
    /\ WakeUp
    /\ control_flow' = Sticky(Armed)
    /\ pc' = "Events"
    /\ resize_redraw' = "none"
    /\ UNCHANGED <<breathe_state, last_time, last_render_time, now, inbox,
                   redraw_requested, sum_dt, prev_state, last_dt, draws,
                   prev_render_time, close_handled, skewed,
                   backs>>

Resized_norequest ==
    /\ pc = "Events"
    /\ inbox # <<>> /\ Head(inbox) = "Resized"
    /\ inbox' = Tail(inbox)
    /\ control_flow' = Sticky(Armed)
    /\ resize_redraw' = "pending"
    /\ UNCHANGED <<breathe_state, last_time, last_render_time, now, pc,
                   redraw_requested, sum_dt, prev_state, last_dt, draws,
                   prev_render_time, close_handled, skewed,
                   backs>>

Resized ==
    /\ pc = "Events"
    /\ inbox # <<>> /\ Head(inbox) = "Resized"
    /\ inbox' = Tail(inbox)
    /\ control_flow' = Sticky(Armed)
    /\ redraw_requested' = TRUE
    /\ resize_redraw' = "pending"
    /\ UNCHANGED <<breathe_state, last_time, last_render_time, now, pc,
                   sum_dt, prev_state, last_dt, draws, prev_render_time,
                   close_handled, skewed,
                   backs>>

CloseRequested_noexit ==
    /\ pc = "Events"
    /\ inbox # <<>> /\ Head(inbox) = "CloseRequested"
    /\ inbox' = Tail(inbox)
    /\ control_flow' = Sticky(Armed)
    /\ close_handled' = TRUE
    /\ UNCHANGED <<breathe_state, last_time, last_render_time, now, pc,
                   redraw_requested, sum_dt, prev_state, last_dt, draws,
                   prev_render_time, resize_redraw, skewed,
                   backs>>

CloseRequested ==
    /\ pc = "Events"
    /\ inbox # <<>> /\ Head(inbox) = "CloseRequested"
    /\ inbox' = Tail(inbox)
    /\ control_flow' = Sticky(Exit)
    /\ close_handled' = TRUE
    /\ UNCHANGED <<breathe_state, last_time, last_render_time, now, pc,
                   redraw_requested, sum_dt, prev_state, last_dt, draws,
                   prev_render_time, resize_redraw, skewed,
                   backs>>

OtherEvent ==
    /\ pc = "Events"
    /\ inbox # <<>> /\ Head(inbox) = "Other"
    /\ inbox' = Tail(inbox)
    /\ control_flow' = Sticky(Armed)
    /\ UNCHANGED <<breathe_state, last_time, last_render_time, now, pc,
                   redraw_requested, sum_dt, prev_state, last_dt, draws,
                   prev_render_time, close_handled, resize_redraw, skewed,
                   backs>>

MainEventsCleared_fromrender ==
    /\ pc = "Events"
    /\ inbox = <<>>
    /\ LET dt == delta(now, last_render_time)
       IN  /\ breathe_state' = advance(breathe_state, dt)
           /\ prev_state' = breathe_state
           /\ last_dt' = dt
           /\ sum_dt' = sum_dt + dt
    /\ last_time' = now
    /\ skewed' = (now < last_time)
    /\ redraw_requested' = TRUE
    /\ control_flow' = Sticky(Armed)
    /\ pc' = "Redraw"
    /\ UNCHANGED <<last_render_time, now, inbox, draws, prev_render_time,
                   close_handled, resize_redraw,
                   backs>>

MainEventsCleared ==
    /\ pc = "Events"
    /\ inbox = <<>>
    /\ LET dt == delta(now, last_time)
       IN  /\ breathe_state' = advance(breathe_state, dt)
           /\ prev_state' = breathe_state
           /\ last_dt' = dt
           /\ sum_dt' = sum_dt + dt
    /\ last_time' = now
    /\ skewed' = (now < last_time)
    /\ redraw_requested' = TRUE
    /\ control_flow' = Sticky(Armed)
    /\ pc' = "Redraw"
    /\ UNCHANGED <<last_render_time, now, inbox, draws, prev_render_time,
                   close_handled, resize_redraw,
                   backs>>

RedrawRequested_advancing ==
    /\ pc = "Redraw"
    /\ redraw_requested
    /\ control_flow' = Sticky(Armed)
    /\ last_render_time' = now
    /\ prev_render_time' = last_render_time
    /\ draws' = IF draws < 2 THEN draws + 1 ELSE 2
    /\ resize_redraw' = IF resize_redraw = "pending" THEN "drawn"
                        ELSE resize_redraw
    /\ redraw_requested' = FALSE
    /\ breathe_state' = advance(breathe_state, delta(now, last_time))
    /\ UNCHANGED <<last_time, now, pc, inbox, sum_dt,
                   prev_state, last_dt, close_handled, skewed,
                   backs>>

RedrawRequested_sharedclock ==
    /\ pc = "Redraw"
    /\ redraw_requested
    /\ control_flow' = Sticky(Armed)
    /\ last_render_time' = now
    /\ prev_render_time' = last_render_time
    /\ draws' = IF draws < 2 THEN draws + 1 ELSE 2
    /\ resize_redraw' = IF resize_redraw = "pending" THEN "drawn"
                        ELSE resize_redraw
    /\ redraw_requested' = FALSE
    /\ last_time' = now
    /\ UNCHANGED <<breathe_state, now, pc, inbox, sum_dt,
                   prev_state, last_dt, close_handled, skewed,
                   backs>>

RedrawRequested ==
    /\ pc = "Redraw"
    /\ redraw_requested
    /\ control_flow' = Sticky(Armed)
    /\ last_render_time' = now
    /\ prev_render_time' = last_render_time
    /\ draws' = IF draws < 2 THEN draws + 1 ELSE 2
    /\ resize_redraw' = IF resize_redraw = "pending" THEN "drawn"
                        ELSE resize_redraw
    /\ redraw_requested' = FALSE
    /\ UNCHANGED <<breathe_state, last_time, now, pc, inbox, sum_dt,
                   prev_state, last_dt, close_handled, skewed,
                   backs>>

RedrawEventsCleared_stale ==
    /\ pc = "Redraw"
    /\ ~redraw_requested
    /\ control_flow' = control_flow
    /\ pc' = IF control_flow'.kind = "Exit" THEN "Destroy" ELSE "Wait"
    /\ UNCHANGED <<breathe_state, last_time, last_render_time, now, inbox,
                   redraw_requested, sum_dt, prev_state, last_dt, draws,
                   prev_render_time, close_handled, resize_redraw, skewed,
                   backs>>

RedrawEventsCleared ==
    /\ pc = "Redraw"
    /\ ~redraw_requested
    /\ control_flow' = Sticky(Armed)
    /\ pc' = IF control_flow'.kind = "Exit" THEN "Destroy" ELSE "Wait"
    /\ UNCHANGED <<breathe_state, last_time, last_render_time, now, inbox,
                   redraw_requested, sum_dt, prev_state, last_dt, draws,
                   prev_render_time, close_handled, resize_redraw, skewed,
                   backs>>

LoopDestroyed ==
    /\ pc = "Destroy"
    /\ control_flow' = Sticky(Armed)
    /\ pc' = "Done"
    /\ UNCHANGED <<breathe_state, last_time, last_render_time, now, inbox,
                   redraw_requested, sum_dt, prev_state, last_dt, draws,
                   prev_render_time, close_handled, resize_redraw, skewed,
                   backs>>

(* The environment: time passes, the OS queues a window event *)

Running == pc \notin {"Done", "Panicked"}

Tick ==
    /\ Running
    /\ now' \in {v \in ClockValues : v > now}
    /\ UNCHANGED <<breathe_state, last_time, last_render_time, control_flow,
                   pc, inbox, redraw_requested, sum_dt, prev_state, last_dt,
                   draws, prev_render_time, close_handled, resize_redraw,
                   skewed,
                   backs>>

OSEvent ==
    /\ Running
    /\ Len(inbox) < MaxInbox
    /\ \E e \in EventKinds : inbox' = Append(inbox, e)
    /\ UNCHANGED <<breathe_state, last_time, last_render_time, control_flow,
                   now, pc, redraw_requested, sum_dt, prev_state, last_dt,
                   draws, prev_render_time, close_handled, resize_redraw,
                   skewed,
                   backs>>

Next ==
    \/ NewEvents
    \/ Resized
    \/ CloseRequested
    \/ OtherEvent
    \/ MainEventsCleared
    \/ RedrawRequested
    \/ RedrawEventsCleared
    \/ LoopDestroyed
    \/ Tick
    \/ OSEvent

Spec == Init /\ [][Next]_vars

(* A clock that violates monotonicity: the reading taken at line 192 may   *)
(* be behind last_time.  Subtracting a later Instant from an earlier one   *)
(* saturates to zero or, in builds with an older standard library, panics. *)
(* The loop is timer-driven here (no window event arrives) and time passes *)
(* while it waits.                                                         *)

TickWait ==
    /\ pc = "Wait"
    /\ Tick

TickBack ==
    /\ pc = "Events"
    /\ backs < MaxBack
    /\ backs' = backs + 1
    /\ now' \in {v \in ClockValues : v < last_time}
    /\ UNCHANGED <<breathe_state, last_time, last_render_time, control_flow,
                   pc, inbox, redraw_requested, sum_dt, prev_state, last_dt,
                   draws, prev_render_time, close_handled, resize_redraw,
                   skewed>>

MainEventsClearedPanic ==
    /\ pc = "Events"
    /\ inbox = <<>>
    /\ now < last_time
    /\ control_flow' = Sticky(Armed)
    /\ skewed' = TRUE
    /\ pc' = "Panicked"
    /\ UNCHANGED <<breathe_state, last_time, last_render_time, now, inbox,
                   redraw_requested, sum_dt, prev_state, last_dt, draws,
                   prev_render_time, close_handled, resize_redraw,
                   backs>>

NextSkew ==
    \/ NewEvents
    \/ MainEventsCleared
    \/ MainEventsClearedPanic
    \/ RedrawRequested
    \/ RedrawEventsCleared
    \/ TickWait
    \/ TickBack

SpecSkew == Init /\ [][NextSkew]_vars

----------------------------------------------------------------------------
(* Properties of the phase machine *)

index(self) ==
    CASE self.variant = "In" -> 0
      [] self.variant = "HoldIn" -> 1
      [] self.variant = "Out" -> 2
      [] self.variant = "HoldOut" -> 3

successor(v) == Variants[((index([variant |-> v]) + 1) % 4) + 1]

Position(self) == PERIOD * index(self) + self.t

\* C1: after any sequence of advance(dt) calls with dt >= 0 from Inhale(0),
\* the elapsed value of the current variant lies in [0, PERIOD).
C1_ElapsedInRange == 0 <= breathe_state.t /\ breathe_state.t < PERIOD

\* C2: every advance(dt) call keeps the variant exactly when
\* elapsed + dt < PERIOD and otherwise moves it to its immediate successor in
\* the cycle In -> HoldIn -> Out -> HoldOut -> In, one step per call, and
\* the variant is always one of the four.
C2_OneStepPerCall ==
    /\ breathe_state.variant \in {"In", "HoldIn", "Out", "HoldOut"}
    /\ IF prev_state.t + last_dt < PERIOD
       THEN breathe_state.variant = prev_state.variant
       ELSE breathe_state.variant = successor(prev_state.variant)

C2_Witness ==
    /\ prev_state.t + last_dt >= 2 * PERIOD
    /\ breathe_state.variant = successor(prev_state.variant)

\* C3: time is neither dropped nor double-counted: the cycle position
\* PERIOD * index(variant) + elapsed is congruent modulo 16 s to the sum of
\* every dt passed to advance so far.
C3_PositionIsTotal == Position(breathe_state) % CYCLE = sum_dt % CYCLE

C3_Witness ==
    /\ last_dt >= 2 * PERIOD
    /\ sum_dt > CYCLE
    /\ breathe_state.variant # prev_state.variant

\* C4: any sequence of advance calls from Inhale(0) whose dt sum to exactly
\* 16 s ends in Inhale(0).
C4_FullCycleReturns == sum_dt = CYCLE => breathe_state = In(0)

\* C5: in every state reachable by advance calls with dt >= 0, scale()
\* returns a value in [0.25, 1.0].
C5_ScaleInRange ==
    /\ RLe(Rat(1, 4), scale(breathe_state))
    /\ RLe(scale(breathe_state), Rat(1, 1))

\* C11: scale(In(0)) = 0.25, scale(Out(0)) = 1.0, scale(HoldIn(t)) = 1.0
\* and scale(HoldOut(t)) = 0.25 for every t.
C11_ScaleBoundaryValues ==
    /\ breathe_state = In(0) => scale(breathe_state) = Rat(1, 4)
    /\ breathe_state = Out(0) => scale(breathe_state) = Rat(1, 1)
    /\ breathe_state.variant = "HoldIn" => scale(breathe_state) = Rat(1, 1)
    /\ breathe_state.variant = "HoldOut" => scale(breathe_state) = Rat(1, 4)

C11_Witness ==
    /\ breathe_state = Out(0)
    /\ prev_state.variant = "HoldIn"
    /\ prev_state.t > 0

\* C12: at every transition the outgoing variant's scale and hue formulas
\* evaluated at elapsed = PERIOD equal the incoming variant's scale and hue
\* at elapsed = 0.
C12_ContinuousAtTransitions ==
    breathe_state.variant # prev_state.variant =>
        LET outgoing == [variant |-> prev_state.variant, t |-> PERIOD]
            incoming == [variant |-> breathe_state.variant, t |-> 0]
        IN  /\ scale(outgoing) = scale(incoming)
            /\ hue(outgoing) = hue(incoming)

C12_Witness ==
    /\ prev_state.variant = "HoldOut"
    /\ breathe_state = In(0)
    /\ sum_dt = CYCLE

\* C13: scale does not decrease over Inhale: for t1 < t2 in [0, PERIOD),
\* scale(In(t1)) <= scale(In(t2)), also across the switch of the easing
\* curve at PERIOD / 2.
C13_ScaleMonotoneOverInhale ==
    (/\ prev_state.variant = "In"
     /\ breathe_state.variant = "In"
     /\ prev_state.t < breathe_state.t
     /\ breathe_state.t < PERIOD)
        => RLe(scale(prev_state), scale(breathe_state))

C13_Witness ==
    /\ prev_state.variant = "In"
    /\ breathe_state.variant = "In"
    /\ 0 < prev_state.t
    /\ 2 * prev_state.t < PERIOD
    /\ 2 * breathe_state.t > PERIOD
    /\ breathe_state.t < PERIOD

----------------------------------------------------------------------------
(* Properties of the event loop *)

\* C6: two consecutive draw calls are always at least 1/60 s apart, whatever
\* events (timer wake-ups, window events, resizes) reach the loop.
C6_DrawsSpaced ==
    draws = 2 => last_render_time - prev_render_time >= UPDATE_PERIOD

\* C7: the sum of every dt passed to advance equals last_time minus its
\* initial value (0), however ticks and redraws were spaced, and the cycle
\* position of the phase equals that elapsed wall time modulo 16 s.
C7_WallTimeAccumulated ==
    /\ sum_dt = last_time
    /\ Position(breathe_state) % CYCLE = last_time % CYCLE

C7_Witness ==
    /\ draws = 2
    /\ last_dt >= PERIOD
    /\ sum_dt > last_dt
    /\ breathe_state.variant # "In"
    /\ last_render_time > last_time

C9_ResizeRequestsRedraw ==
    /\ resize_redraw = "pending" => redraw_requested
    /\ pc \in {"Wait", "Destroy", "Done"} => resize_redraw # "pending"

C9_Witness ==
    /\ resize_redraw = "drawn"
    /\ draws = 2
    /\ last_render_time - prev_render_time < UPDATE_PERIOD

\* C10: no advance call receives a negative dt and elapsed is never
\* negative, even when the clock reading is behind last_time.
C10_ElapsedNonNegative == last_dt >= 0 /\ breathe_state.t >= 0

C10_Witness ==
    /\ skewed
    /\ pc = "Redraw"
    /\ last_dt = 0
    /\ breathe_state = prev_state
    /\ breathe_state.t > 0

\* C14: a redraw step, which queries scale() and colour(), changes neither
\* the variant nor elapsed, so a second query returns the same values.
C14_RedrawLeavesPhase ==
    [][(redraw_requested /\ ~redraw_requested')
           => breathe_state' = breathe_state]_vars

C14_Witness ==
    /\ pc = "Redraw"
    /\ ~redraw_requested
    /\ draws = 2
    /\ breathe_state.t > 0
    /\ breathe_state.variant # "In"

\* C15 (as stated): after every call of the closure that is not a close
\* request, the call of the RedrawRequested handler included, the wake-up
\* in force is no earlier than the current last_render_time + 1/60 s.
C15_DeadlineAfterEveryHandler ==
    control_flow.kind = "WaitUntil"
        => control_flow.until >= last_render_time + UPDATE_PERIOD

\* C15 (amended): the wake-up in force is no earlier than
\* last_render_time + 1/60 s after every call of the closure except the
\* RedrawRequested one, whose deadline is still that of the previous
\* last_render_time until the RedrawEventsCleared call replaces it; whenever
\* the loop waits, the deadline is computed from the new last_render_time.
C15_DeadlineWhenLoopWaits ==
    (control_flow.kind = "WaitUntil" /\ (pc = "Redraw" => redraw_requested))
        => control_flow.until >= last_render_time + UPDATE_PERIOD

C15_Witness ==
    /\ pc = "Wait"
    /\ draws = 2
    /\ last_render_time > prev_render_time
    /\ control_flow = WaitUntil(last_render_time + UPDATE_PERIOD)

\* C16: the tick handler updates last_time and the phase and leaves
\* last_render_time alone; the redraw handler updates last_render_time and
\* leaves last_time and the phase alone; window-event handlers (resize,
\* close) change none of the three.
C16_ClocksIndependent ==
    [][/\ (pc = "Events" /\ pc' = "Redraw") =>
              /\ last_time' = now
              /\ breathe_state' = advance(breathe_state, now - last_time)
              /\ last_render_time' = last_render_time
       /\ (redraw_requested /\ ~redraw_requested') =>
              /\ last_render_time' = now
              /\ last_time' = last_time
              /\ breathe_state' = breathe_state
       /\ Len(inbox') < Len(inbox) =>
              /\ last_time' = last_time
              /\ last_render_time' = last_render_time
              /\ breathe_state' = breathe_state]_vars

C16_Witness ==
    /\ draws = 2
    /\ last_render_time > last_time
    /\ last_time > prev_render_time
    /\ close_handled

----------------------------------------------------------------------------
(* Properties of the phase machine run without end *)

\* C17: as long as ticks keep occurring and time keeps progressing, each of
\* the four variants is entered again and again, and each change of
\* variant goes to the successor in the cycle.
C17_EveryVariantRecurs ==
    /\ [][breathe_state'.variant \in
              {breathe_state.variant, successor(breathe_state.variant)}]_vars
    /\ []<>(breathe_state.variant = "In")
    /\ []<>(breathe_state.variant = "HoldIn")
    /\ []<>(breathe_state.variant = "Out")
    /\ []<>(breathe_state.variant = "HoldOut")

C17_Witness ==
    /\ breathe_state.variant = "In"
    /\ prev_state.variant = "HoldOut"
    /\ prev_state.t >= PERIOD
    /\ last_dt > 0

\* C18: once a call has left elapsed >= PERIOD, every following call with
\* 0 <= dt < PERIOD moves the variant one step forward and lowers elapsed
\* by PERIOD - dt; a call with dt < PERIOD from elapsed < PERIOD leaves
\* elapsed < PERIOD; and if from some call on every dt is < PERIOD, elapsed
\* is eventually in [0, PERIOD) for good.
C18_RecoversFromOversizedDt ==
    /\ []((prev_state.t >= PERIOD /\ last_dt < PERIOD) =>
              /\ breathe_state.variant = successor(prev_state.variant)
              /\ breathe_state.t = prev_state.t - (PERIOD - last_dt)
              /\ breathe_state.t < prev_state.t)
    /\ []((prev_state.t < PERIOD /\ last_dt < PERIOD) =>
              breathe_state.t < PERIOD)
    /\ (<>[](last_dt < PERIOD)) => <>[](breathe_state.t < PERIOD)

C18_Witness ==
    /\ prev_state.t >= 2 * PERIOD
    /\ 0 < last_dt
    /\ last_dt < PERIOD
    /\ breathe_state.t >= PERIOD
    /\ breathe_state.t < prev_state.t

====
